---- MODULE Spec2Model ----
(***************************************************************************)
(* A model of the photometry and overscan-convergence code of LEMON:       *)
(*   - FITSImage.stable_overscan  (src/fitsimage.py)                       *)
(*   - QPhotResult.snr, QPhot.run and the module function run              *)
(*     (src/qphot.py)                                                      *)
(*   - LEMONJuicerGUI.open_db  (src/juicer/app.py)                         *)
(* One top-level call is made from the idle state; every operation is      *)
(* followed step by step until it returns or raises.  QPhot.run may then   *)
(* be called again on the same instance.                                   *)
(***************************************************************************)
EXTENDS Integers, Sequences, FiniteSets, TLC

(***************************************************************************)
(* Bounds of the model.                                                    *)
(***************************************************************************)
\* width and height of the image whose overscan area is searched
ImgW == 5
ImgH == 5
\* depth at which the interpreter refuses one more recursive call
RecursionLimit == 2
\* largest number of stars in a coordinate list
MaxStars == 2
\* largest number of wrong lines the tasks print during one call
MaxBadLines == 1
\* largest number of calls of QPhot.run on one instance
MaxRuns == 2
\* largest number of calls of open_db
MaxOpens == 2
\* largest number of stars in a LEMONdB
MaxDbStars == 2

Abs(n) == IF n < 0 THEN -n ELSE n

Min(a, b) == IF a <= b THEN a ELSE b

(***************************************************************************)
(* Values of Python: None, a float, positive infinity, and the absence of  *)
(* an attribute.                                                           *)
(***************************************************************************)
None == [tag |-> "None", val |-> 0]
Infinity == [tag |-> "inf", val |-> 0]
Absent == [tag |-> "absent", val |-> 0]
Float(v) == [tag |-> "float", val |-> v]

VARIABLES
    pc,          \* position of the top-level call
    fault,       \* the exception that reached the caller, or "none"
    debug,       \* __debug__: FALSE when the interpreter runs with -O
    \* ---- FITSImage.stable_overscan
    so_orig,     \* the rectangle the caller supplied
    so_thr0,     \* the threshold the caller supplied (quarters)
    so_init,     \* the rectangle the current invocation was called with
    so_rect,     \* x1, x2, y1, y2 of the current invocation
    so_thr,      \* the threshold of the current invocation
    so_step,     \* offset
    so_stat,     \* mean and stddev of the previous area
    so_depth,    \* number of recursive calls made so far
    so_shrinks,  \* number of shrinks made by the current invocation
    so_ret,      \* the returned tuple
    so_new,      \* new_mean and new_stddev of the latest convergence test
    \* ---- QPhotResult.snr
    snr_self,    \* the QPhotResult the method is called on
    snr_gain,    \* the argument
    snr_ret,     \* the returned value
    \* ---- QPhot.run and run
    pixels,      \* the caller's list of Pixel instances
    offset,      \* xml_offset.x, xml_offset.y
    uncimg,      \* "unread" at first; "none": no keyword; "exists" or
                 \* "missing": the file the keyword names
    shifted,     \* list_of_shifted_pixels
    insts,       \* the QPhot instances: a list of QPhotResult each
    qinst,       \* the instance whose run method is executing
    qpc,         \* position inside QPhot.run
    qarg,        \* the argument 'pixels' QPhot.run was called with
    qpix,        \* the local variable 'pixels' of QPhot.run
    text,        \* by instance, the lines of txdump its loop has taken
    qlines,      \* len(txdump_lines), -1 before the file is read
    qexc,        \* the exception pending inside QPhot.run
    qret,        \* the value QPhot.run returned, -1 if none
    tmp,         \* the temporary files that exist
    created,     \* the temporary files that were ever created
    calls,       \* how many times each external task was invoked
    nbad,        \* how many wrong lines the tasks have printed so far
    nruns,       \* how many times run was called on the instance "solo"
    imexpr_a,    \* the operand 'a' imexpr was given, "" before
    rexc,        \* the exception pending inside run
    ridx,        \* index of the classification loop of run
    \* ---- the saturation mask of run, one pixel of it (in halves of an ADU)
    maximum,     \* the argument 'maximum' of run
    expr,        \* the number printed in the expression given to imexpr
    a_pixel,     \* the value of a pixel of the operand 'a'
    mask_value,  \* the value imexpr gives the pixel of the mask, -1 before
    \* ---- LEMONJuicerGUI.open_db
    self_db,     \* self.db: 0 for None, else the number of the database
    n_pages,     \* self._notebook.get_n_pages()
    self_view,   \* self.view: the overview it belongs to and its model
    self_aborted,\* self._aborted
    db,          \* the local variable db, 0 before LEMONdB(path) returns
    nstars,      \* len(db)
    star_index,  \* the number of stars loaded so far
    err,         \* the exception open_db caught, or "none"
    at_call,     \* self.db, the pages and self.view when open_db was called
    nopens       \* how many times open_db was called

soVars == <<so_orig, so_thr0, so_init, so_rect, so_thr, so_step, so_stat,
            so_depth, so_shrinks, so_ret, so_new>>
snrVars == <<snr_self, snr_gain, snr_ret>>
runVars == <<pixels, offset, uncimg, shifted, rexc, ridx>>
qVars == <<insts, qinst, qpc, qarg, qpix, text, qlines, qexc, qret, tmp, created, calls>>
ieVars == <<maximum, expr, a_pixel, mask_value>>
guiVars == <<self_db, n_pages, self_view, self_aborted, db, nstars,
             star_index, err, at_call, nopens>>
vars == <<pc, fault, debug, nbad, nruns, imexpr_a, soVars, snrVars, runVars,
          qVars, ieVars, guiVars>>

(***************************************************************************)
(* FITSImage.stable_overscan                                               *)
(***************************************************************************)
\* thresholds are counted in quarters: 1 is 0.25, 4 is 1.0
ThrDen == 2 * 2

Rect(x1, x2, y1, y2) == [x1 |-> x1, x2 |-> x2, y1 |-> y1, y2 |-> y2]

NoRect == Rect(0, 0, 0, 0)

\* the values imstat reports for the mean and the standard deviation
MeanVals == {3, 4}
StddevVals == {2, 4}

\* IRAF runs imstat on image[x1:x2,y1:y2]; a reversed section is a flipped
\* one, and a section that leaves the image is an error of the task.
ImstatDefined(r) ==
    /\ r.x1 \in 1..ImgW /\ r.x2 \in 1..ImgW
    /\ r.y1 \in 1..ImgH /\ r.y2 \in 1..ImgH

\* x1 += offset; x2 -= offset; y1 += offset; y2 -= offset
ShrinkGrows(r, step) == Rect(r.x1 - step, r.x2 + step, r.y1 - step, r.y2 + step)

Shrink(r, step) == Rect(r.x1 + step, r.x2 - step, r.y1 + step, r.y2 - step)

\* if x1 > x2 or y1 > y2
ExhaustedBothAxes(r) == r.x1 > r.x2 /\ r.y1 > r.y2

Exhausted(r) == r.x1 > r.x2 \/ r.y1 > r.y2

\* methods.percentage_change(old, new): the fractional change, as a fraction
PercentageChange(old, new) == [num |-> new - old, den |-> old]

\* abs(pc) <= threshold, the threshold counted in quarters
WithinThreshold(change, thr) ==
    Abs(change.num) * ThrDen <= thr * Abs(change.den)

\* stddev_pc <= threshold and mean_pc <= threshold
ConvergedEither(old, new, thr) ==
    \/ WithinThreshold(PercentageChange(old.stddev, new.stddev), thr)
    \/ WithinThreshold(PercentageChange(old.mean, new.mean), thr)

Converged(old, new, thr) ==
    /\ WithinThreshold(PercentageChange(old.stddev, new.stddev), thr)
    /\ WithinThreshold(PercentageChange(old.mean, new.mean), thr)

\* the threshold handed to the recursive call: threshold * 2
RelaxedTripled(thr) == thr * 3

Relaxed(thr) == thr * 2

\* the rectangle handed to the recursive call: the local x1, x2, y1, y2,
\* which the loop has shrunk by then
RestartRect(orig, cur) == cur

\* the position after a convergence test
AfterTest(conv) == IF conv THEN "so_returned" ELSE "so_shrink"

\* the position after the initial statistics: the loop shrinks first
AfterInitTestsFirst == "so_test"

AfterInit == "so_shrink"

\* stable_overscan is called: the statistics of the initial area
SO_Call ==
    /\ pc = "idle"
    /\ \E x1 \in 1..ImgW, x2 \in 1..ImgW, y1 \in 1..ImgH, y2 \in 1..ImgH,
          thr \in {1, 2}, step \in {1, 2},
          m \in MeanVals, s \in StddevVals :
         /\ so_orig' = Rect(x1, x2, y1, y2)
         /\ so_init' = Rect(x1, x2, y1, y2)
         /\ so_rect' = Rect(x1, x2, y1, y2)
         /\ so_thr0' = thr
         /\ so_thr' = thr
         /\ so_step' = step
         /\ so_stat' = [mean |-> m, stddev |-> s]
    /\ so_depth' = 0
    /\ so_shrinks' = 0
    /\ pc' = AfterInit
    /\ UNCHANGED <<fault, debug, so_new, ieVars, guiVars, nbad, nruns,
                   imexpr_a, so_ret, snrVars, runVars, qVars>>

\* the first statements of the loop
SO_Shrink ==
    /\ pc = "so_shrink"
    /\ so_rect' = Shrink(so_rect, so_step)
    /\ so_shrinks' = so_shrinks + 1
    /\ pc' = "so_test"
    /\ UNCHANGED <<fault, debug, so_new, ieVars, guiVars, nbad, nruns,
                   imexpr_a, so_orig, so_thr0, so_init, so_thr, so_step,
                   so_stat, so_depth, so_ret, snrVars, runVars, qVars>>

\* the area is exhausted: return self.stable_overscan(x1, x2, y1, y2,
\* threshold * 2, offset); the callee starts by calling imstat
SO_Relax ==
    /\ pc = "so_test"
    /\ Exhausted(so_rect)
    /\ LET r == RestartRect(so_orig, so_rect) IN
       IF so_depth + 1 > RecursionLimit
       THEN /\ pc' = "fault"
            /\ fault' = "RuntimeError"
            /\ UNCHANGED <<so_init, so_rect, so_thr, so_stat, so_depth,
                           so_shrinks>>
       ELSE /\ so_depth' = so_depth + 1
            /\ so_thr' = Relaxed(so_thr)
            /\ so_init' = r
            /\ so_rect' = r
            /\ so_shrinks' = 0
            /\ IF ImstatDefined(r)
               THEN /\ \E m \in MeanVals, s \in StddevVals :
                          so_stat' = [mean |-> m, stddev |-> s]
                    /\ pc' = AfterInit
                    /\ UNCHANGED fault
               ELSE /\ pc' = "fault"
                    /\ fault' = "IrafError"
                    /\ UNCHANGED so_stat
    /\ UNCHANGED <<debug, so_new, ieVars, guiVars, nbad, nruns, imexpr_a,
                   so_orig, so_thr0, so_step, so_ret, snrVars, runVars, qVars>>

\* the area is not exhausted: new statistics and the convergence test
SO_Test ==
    /\ pc = "so_test"
    /\ ~Exhausted(so_rect)
    /\ \E m \in MeanVals, s \in StddevVals :
         LET new == [mean |-> m, stddev |-> s]
             conv == Converged(so_stat, new, so_thr) IN
         /\ so_new' = new
         /\ pc' = AfterTest(conv)
         /\ so_ret' = IF conv THEN so_rect ELSE so_ret
         /\ so_stat' = IF conv THEN so_stat ELSE new
    /\ UNCHANGED <<fault, debug, ieVars, guiVars, nbad, nruns, imexpr_a,
                   so_orig, so_thr0, so_init, so_rect, so_thr, so_step,
                   so_depth, so_shrinks, snrVars, runVars, qVars>>

(***************************************************************************)
(* QPhotResult: the photometry of one star.  Coordinates are counted in    *)
(* tenths of a millionth of a pixel, so that the six decimals of "%f" are  *)
(* a rounding.                                                             *)
(***************************************************************************)
QPhotResult(xcenter, ycenter, mag, sum_, flux, stdev) ==
    [x |-> xcenter, y |-> ycenter, magnitude |-> mag, sum |-> sum_,
     flux |-> flux, stdev |-> stdev, mag |-> Absent]

\* the returned float is num / sqrt(rad), kept exact
SnrValue(num, rad) == [exc |-> "none", num |-> num, rad |-> rad]

SnrNotCalled == [exc |-> "not called", num |-> 0, rad |-> 1]

SnrZeroGainAllowed(self, gain) ==
    IF gain < 0 THEN [exc |-> "ValueError", num |-> 0, rad |-> 1]
    ELSE IF self.sum = 0 THEN SnrValue(0, 1)
    ELSE IF gain = 0 THEN [exc |-> "ZeroDivisionError", num |-> 0, rad |-> 1]
    ELSE IF self.sum < 0
         THEN SnrValue(-Abs(self.flux * gain), Abs(self.sum * gain))
         ELSE SnrValue(self.flux * gain, self.sum * gain)

SnrNoNegation(self, gain) ==
    IF gain <= 0 THEN [exc |-> "ValueError", num |-> 0, rad |-> 1]
    ELSE IF self.sum = 0 THEN SnrValue(0, 1)
    ELSE SnrValue(self.flux * gain, Abs(self.sum * gain))

\* QPhotResult.snr(gain)
Snr(self, gain) ==
    IF gain <= 0 THEN [exc |-> "ValueError", num |-> 0, rad |-> 1]
    ELSE IF self.sum = 0 THEN SnrValue(0, 1)
    ELSE IF self.sum < 0
         THEN SnrValue(-Abs(self.flux * gain), Abs(self.sum * gain))
         ELSE SnrValue(self.flux * gain, self.sum * gain)

SumVals == {-100, -1, 0, 4, 100}
FluxVals == {-50, -1, 0, 3, 50}
GainVals == {-2, 0, 1, 2, 4}

\* a QPhotResult exists
SnrNew ==
    /\ pc = "idle"
    /\ \E s \in SumVals, f \in FluxVals, m \in {None, Float(12)} :
         snr_self' = QPhotResult(10, 10, m, s, f, Float(1))
    /\ pc' = "snr_ready"
    /\ UNCHANGED <<fault, debug, ieVars, guiVars, nbad, nruns, imexpr_a,
                   snr_gain, snr_ret, soVars, runVars, qVars>>

\* its method snr is called with some gain
SnrCall ==
    /\ pc = "snr_ready"
    /\ \E g \in GainVals :
         LET r == Snr(snr_self, g) IN
         /\ snr_gain' = g
         /\ snr_ret' = r
         /\ pc' = IF r.exc = "none" THEN "snr_returned" ELSE "fault"
         /\ fault' = IF r.exc = "none" THEN fault ELSE r.exc
    /\ UNCHANGED <<debug, ieVars, guiVars, nbad, nruns, imexpr_a, snr_self,
                   soVars, runVars, qVars>>

(***************************************************************************)
(* QPhot.run: qphot and txdump on a list of coordinates.                   *)
(***************************************************************************)
\* one pixel, in the unit of the coordinates
Scale == 10 * 1000 * 1000

\* epsilon = 0.001, a thousandth of a pixel
Epsilon == Scale \div 1000

Pixel(x, y) == [x |-> x, y |-> y]

\* the i-th star of the reference catalogue: (10, 10), (50, 50), ... pixels,
\* the later ones with digits beyond the sixth decimal
Star(i) == Pixel((40 * i - 30) * Scale + 4 * (i - 1),
                 (40 * i - 30) * Scale + 4 * (i - 1))

PixelLists == { [i \in 1..n |-> Star(i)] : n \in 0..MaxStars }

\* the offset between the two images: two pixels right, one pixel down
Offsets == { Pixel(2 * Scale, -Scale) }

\* "%f" % v: six decimals
FormatF(v) == ((v + 5) \div 10) * 10

\* the fields of a line of txdump: a number or a word
Num(v) == [word |-> "", val |-> v]
Word(w) == [word |-> w, val |-> 0]

\* float(s): the number, or ValueError
IsFloat(tok) == tok.word = ""

\* the lines txdump prints for the star at pixel p: the center as qphot
\* read it from the file of coordinates; a star without a magnitude may be
\* without a sky deviation as well; on the mask the flux is that of the
\* ones under the aperture, less the sky.
GoodLines(inst, p) ==
    { <<Num(FormatF(p.x)), Num(FormatF(p.y)), m[1], Num(100), f, m[2]>> :
        m \in (IF inst = "mask" THEN {<<Word("INDEF"), Num(1)>>}
               ELSE {<<Num(12), Num(1)>>, <<Word("INDEF"), Num(1)>>,
                     <<Word("INDEF"), Word("INDEF")>>}),
        f \in (IF inst = "mask" THEN {Num(0), Num(3), Num(-1)}
               ELSE {Num(50)}) }

\* the lines of a task that went wrong: a center half a thousandth or a
\* thousandth of a pixel away, a word that is no number, a missing field
BadLines(p) ==
    LET l == <<Num(FormatF(p.x)), Num(FormatF(p.y)), Num(12), Num(100),
               Num(50), Num(1)>>
    IN  { [l EXCEPT ![1] = Num(FormatF(p.x) + Epsilon \div 2)],
          [l EXCEPT ![1] = Num(FormatF(p.x) + Epsilon)],
          [l EXCEPT ![2] = Num(FormatF(p.y) - Epsilon)],
          [l EXCEPT ![3] = Word("*")],
          [l EXCEPT ![4] = Word("INDEF")],
          [l EXCEPT ![6] = Word("*")],
          SubSeq(l, 1, 3) }

\* the lines one iteration may find: a task prints at most MaxBadLines
\* wrong lines in the course of one top-level call
LinesFor(inst, p, bad) ==
    GoodLines(inst, p) \cup (IF bad < MaxBadLines THEN BadLines(p) ELSE {})

\* the external tasks
Tasks == {"qphot", "txdump", "imexpr", "sextractor"}

\* try: float(s); except ValueError: None
FloatOrZero(tok) == IF IsFloat(tok) THEN Float(tok.val) ELSE Float(0)

FloatOrNone(tok) == IF IsFloat(tok) THEN Float(tok.val) ELSE None

\* the fields after the center: mag, sum, flux and stdev, INDEF read as
\* None (lines 329-346)
ParseFields(line, dbg) ==
    IF Len(line) < 3 THEN [exc |-> "IndexError", star |-> None]
    ELSE IF dbg /\ ~IsFloat(line[3]) /\ line[3].word # "INDEF"
    THEN [exc |-> "AssertionError", star |-> None]
    ELSE IF Len(line) < 4 THEN [exc |-> "IndexError", star |-> None]
    ELSE IF ~IsFloat(line[4]) THEN [exc |-> "ValueError", star |-> None]
    ELSE IF Len(line) < 5 THEN [exc |-> "IndexError", star |-> None]
    ELSE IF ~IsFloat(line[5]) THEN [exc |-> "ValueError", star |-> None]
    ELSE IF Len(line) < 6 THEN [exc |-> "IndexError", star |-> None]
    ELSE IF dbg /\ ~IsFloat(line[6]) /\ line[6].word # "INDEF"
    THEN [exc |-> "AssertionError", star |-> None]
    ELSE [exc |-> "none",
          star |-> QPhotResult(line[1].val, line[2].val,
                      FloatOrNone(line[3]), line[4].val, line[5].val,
                      FloatOrNone(line[6]))]

\* what one iteration of the loop does with a line: the QPhotResult to
\* append, or the exception (lines 318-350)
Parse(line, pixel, dbg) ==
    IF Len(line) < 1 THEN [exc |-> "IndexError", star |-> None]
    ELSE IF ~IsFloat(line[1]) THEN [exc |-> "ValueError", star |-> None]
    ELSE IF Len(line) < 2 THEN [exc |-> "IndexError", star |-> None]
    ELSE IF ~IsFloat(line[2]) THEN [exc |-> "ValueError", star |-> None]
    ELSE IF dbg /\ ~(/\ Abs(line[1].val - pixel.x) < Epsilon
                     /\ Abs(line[2].val - pixel.y) < Epsilon)
    THEN [exc |-> "AssertionError", star |-> None]
    ELSE ParseFields(line, dbg)

\* self.append(star_phot)
AppendInFront(self, star) == <<star>> \o self

AppendStar(self, star) == Append(self, star)

\* assert len(txdump_lines) == len(pixels)
LenCheck(nlines, npixels, dbg) == ~dbg \/ nlines = npixels

\* zip(txdump_lines, pixels): the number of pairs
ZipLen(a, b) == Min(a, b)

\* QPhot.run starts on instance inst with the argument pixels
QStart(inst, pix) ==
    /\ qinst' = inst
    /\ qarg' = pix
    /\ qpix' = pix
    /\ text' = [text EXCEPT ![inst] = <<>>]
    /\ qpc' = "clear"
    /\ qlines' = -1
    /\ qexc' = "none"
    /\ qret' = -1

\* self.clear()
QClear ==
    /\ pc = "q_run" /\ qpc = "clear"
    /\ insts' = [insts EXCEPT ![qinst] = <<>>]
    /\ qpc' = IF qpix = <<>> THEN "detect" ELSE "coords"
    /\ UNCHANGED <<pc, fault, debug, ieVars, guiVars, nbad, nruns, imexpr_a,
                   soVars, snrVars, runVars, qinst, qarg, qpix, text, qlines,
                   qexc, qret, tmp, created, calls>>

\* if not pixels: the stars SExtractor detects on the image
QDetect ==
    /\ pc = "q_run" /\ qpc = "detect"
    /\ calls' = [calls EXCEPT !["sextractor"] = @ + 1]
    /\ \/ /\ \E l \in PixelLists : qpix' = l
          /\ qpc' = "coords"
          /\ UNCHANGED qexc
       \/ /\ qexc' = "IOError"
          /\ qpc' = "finally"
          /\ UNCHANGED qpix
    /\ UNCHANGED <<pc, fault, debug, ieVars, guiVars, nbad, nruns, imexpr_a,
                   soVars, snrVars, runVars, insts, qinst, qarg, text,
                   qlines, qret, tmp, created>>

\* the file of coordinates: mkstemp, one "%f\t%f\n" per pixel, close
QCoords ==
    /\ pc = "q_run" /\ qpc = "coords"
    /\ \/ /\ tmp' = tmp \cup {"coords"}
          /\ created' = created \cup {"coords"}
          /\ qpc' = "qphot"
          /\ UNCHANGED qexc
       \/ \* mkstemp fails
          /\ qexc' = "OSError"
          /\ qpc' = "finally"
          /\ UNCHANGED <<tmp, created>>
       \/ \* os.write fails
          /\ tmp' = tmp \cup {"coords"}
          /\ created' = created \cup {"coords"}
          /\ qexc' = "OSError"
          /\ qpc' = "finally"
    /\ UNCHANGED <<pc, fault, debug, ieVars, guiVars, nbad, nruns, imexpr_a,
                   soVars, snrVars, runVars, insts, qinst, qarg, qpix, text,
                   qlines, qret, calls>>

\* mkstemp, close and unlink of the output file, then apphot.qphot
QQphot ==
    /\ pc = "q_run" /\ qpc = "qphot"
    /\ calls' = [calls EXCEPT !["qphot"] = @ + 1]
    /\ created' = created \cup {"output"}
    /\ \/ /\ tmp' = tmp \cup {"output"}
          /\ qpc' = "txdump"
          /\ UNCHANGED qexc
       \/ \* the task fails, with or without having written its output
          /\ \E left \in SUBSET {"output"} : tmp' = tmp \cup left
          /\ qexc' = "IrafError"
          /\ qpc' = "finally"
    /\ UNCHANGED <<pc, fault, debug, ieVars, guiVars, nbad, nruns, imexpr_a,
                   soVars, snrVars, runVars, insts, qinst, qarg, qpix, text,
                   qlines, qret>>

\* mkstemp, close and unlink of the second output file, then txdump
QTxdump ==
    /\ pc = "q_run" /\ qpc = "txdump"
    /\ calls' = [calls EXCEPT !["txdump"] = @ + 1]
    /\ created' = created \cup {"txdump"}
    /\ \/ /\ tmp' = tmp \cup {"txdump"}
          /\ qpc' = "read"
          /\ UNCHANGED qexc
       \/ /\ \E left \in SUBSET {"txdump"} : tmp' = tmp \cup left
          /\ qexc' = "IrafError"
          /\ qpc' = "finally"
    /\ UNCHANGED <<pc, fault, debug, ieVars, guiVars, nbad, nruns, imexpr_a,
                   soVars, snrVars, runVars, insts, qinst, qarg, qpix, text,
                   qlines, qret>>

\* txdump_lines = txdump_fd.readlines() and the assertion on its length
QRead ==
    /\ pc = "q_run" /\ qpc = "read"
    /\ \E n \in 0..(Len(qpix) + 1) :
         /\ qlines' = n
         /\ IF LenCheck(n, Len(qpix), debug)
            THEN qpc' = "parse" /\ UNCHANGED qexc
            ELSE qpc' = "finally" /\ qexc' = "AssertionError"
    /\ UNCHANGED <<pc, fault, debug, ieVars, guiVars, nbad, nruns, imexpr_a,
                   soVars, snrVars, runVars, insts, qinst, qarg, qpix, text,
                   qret, tmp, created, calls>>

\* one iteration of the loop over zip(txdump_lines, pixels)
QParse ==
    /\ pc = "q_run" /\ qpc = "parse"
    /\ Len(insts[qinst]) < ZipLen(qlines, Len(qpix))
    /\ LET i == Len(insts[qinst]) + 1 IN
       \E line \in LinesFor(qinst, qpix[i], nbad) :
         LET r == Parse(line, qpix[i], debug) IN
         /\ text' = [text EXCEPT ![qinst] = Append(@, line)]
         /\ nbad' = IF line \in BadLines(qpix[i]) THEN nbad + 1 ELSE nbad
         /\ IF r.exc = "none"
            THEN /\ insts' = [insts EXCEPT ![qinst] = AppendStar(@, r.star)]
                 /\ UNCHANGED <<qpc, qexc>>
            ELSE /\ qexc' = r.exc
                 /\ qpc' = "finally"
                 /\ UNCHANGED insts
    /\ UNCHANGED <<pc, fault, debug, ieVars, guiVars, nruns, imexpr_a,
                   soVars, snrVars, runVars, qinst, qarg, qpix, qlines, qret,
                   tmp, created, calls>>

\* the loop is over
QParsed ==
    /\ pc = "q_run" /\ qpc = "parse"
    /\ Len(insts[qinst]) >= ZipLen(qlines, Len(qpix))
    /\ qpc' = "finally"
    /\ UNCHANGED <<pc, fault, debug, ieVars, guiVars, nbad, nruns, imexpr_a,
                   soVars, snrVars, runVars, insts, qinst, qarg, qpix, text,
                   qlines, qexc, qret, tmp, created, calls>>

\* the files the finally clause of QPhot.run unlinks
QUnlinkedButTxdump == {"coords", "output"}

QUnlinked == {"coords", "output", "txdump"}

\* where the caller of QPhot.run goes on, by instance and outcome
QContinueSwallows(inst, exc) ==
    IF inst = "img" THEN "run_uncimg"
    ELSE IF inst = "mask" THEN "run_assert" ELSE "q_returned"

QContinueSkipsCheck(inst, exc) ==
    IF inst = "img" THEN (IF exc = "none" THEN "run_mask" ELSE "fault")
    ELSE IF inst = "mask"
         THEN (IF exc = "none" THEN "run_assert" ELSE "run_finally")
         ELSE (IF exc = "none" THEN "q_returned" ELSE "fault")

QContinue(inst, exc) ==
    IF inst = "img" THEN (IF exc = "none" THEN "run_uncimg" ELSE "fault")
    ELSE IF inst = "mask"
         THEN (IF exc = "none" THEN "run_assert" ELSE "run_finally")
         ELSE (IF exc = "none" THEN "q_returned" ELSE "fault")

\* the finally clause, and then return len(self) or the pending exception
QFinally ==
    /\ pc = "q_run" /\ qpc = "finally"
    /\ tmp' = tmp \ QUnlinked
    /\ qpc' = "done"
    /\ qret' = IF qexc = "none" THEN Len(insts[qinst]) ELSE -1
    /\ pc' = QContinue(qinst, qexc)
    /\ fault' = IF qexc # "none" /\ qinst # "mask" THEN qexc ELSE fault
    /\ rexc' = IF qexc # "none" /\ qinst = "mask" THEN qexc ELSE rexc
    /\ UNCHANGED <<debug, ieVars, guiVars, nbad, nruns, imexpr_a, soVars,
                   snrVars, pixels, offset, uncimg, shifted, ridx, insts,
                   qinst, qarg, qpix, text, qlines, qexc, created, calls>>

\* QPhot(path).run(..., pixels = l) called on an instance of its own
QCall ==
    /\ pc = "idle"
    /\ \E l \in PixelLists : QStart("solo", l)
    /\ pc' = "q_run"
    /\ nruns' = 1
    /\ UNCHANGED <<fault, debug, ieVars, guiVars, nbad, imexpr_a, soVars,
                   snrVars, runVars, insts, tmp, created, calls>>

\* the caller of QPhot.run has its result, or has caught its exception
QCallerHasControl ==
    \/ pc = "q_returned"
    \/ pc = "fault" /\ nruns > 0 /\ qexc # "none"

\* run is called once more on the same instance, whatever the earlier call
\* left in it
QRerun ==
    /\ QCallerHasControl
    /\ nruns < MaxRuns
    /\ \E l \in PixelLists : QStart("solo", l)
    /\ pc' = "q_run"
    /\ fault' = "none"
    /\ nruns' = nruns + 1
    /\ nbad' = 0
    /\ UNCHANGED <<debug, ieVars, guiVars, imexpr_a, soVars, snrVars,
                   runVars, insts, tmp, created, calls>>

(***************************************************************************)
(* run: photometry on the shifted image, then on the saturation mask.      *)
(***************************************************************************)
\* the deep copy of the reference pixels, each moved by the offset
ShiftedPixels(ref, off) ==
    [i \in 1..Len(ref) |-> Pixel(ref[i].x + off.x, ref[i].y + off.y)]

\* copy.deepcopy gives the loop Pixel objects of its own: what the caller's
\* list holds once the loop has added the offset to every shifted_pixel
ReferenceShared(ref, off) == ShiftedPixels(ref, off)

ReferenceAfterShift(ref, off) == ref

\* if star_mask.flux > 0
SaturatedOrZero(star_mask) == star_mask.flux >= 0

Saturated(star_mask) == star_mask.flux > 0

\* star_phot.mag = float('infinity'): the attribute 'mag' is set, and the
\* attribute 'magnitude' that __init__ created is left as it was
MarkSaturated(star_phot) == [star_phot EXCEPT !.mag = Infinity]

\* one iteration of the classification loop on the i-th star
Classify(img, mask, i) ==
    IF Saturated(mask[i]) THEN [img EXCEPT ![i] = MarkSaturated(@)] ELSE img

\* run is called: the two images are opened
RunCall ==
    /\ pc = "idle"
    /\ \E l \in PixelLists, off \in Offsets :
         /\ pixels' = l
         /\ offset' = off
    /\ \/ pc' = "run_shift" /\ UNCHANGED fault
       \/ pc' = "fault" /\ fault' = "IOError"
    /\ UNCHANGED <<debug, ieVars, guiVars, nbad, nruns, imexpr_a, soVars,
                   snrVars, uncimg, shifted, rexc, ridx, qVars>>

\* reference_pixels = pixels or reference_image.coordinates: without pixels
\* this is the bound method, which the for loop cannot iterate over.  With
\* pixels: the copy, the offset, and img_qphot.run on the shifted pixels
RunShift ==
    /\ pc = "run_shift"
    /\ IF pixels = <<>>
       THEN /\ pc' = "fault"
            /\ fault' = "TypeError"
            /\ UNCHANGED <<pixels, shifted, qinst, qarg, qpix, text, qpc,
                           qlines, qexc, qret>>
       ELSE /\ shifted' = ShiftedPixels(pixels, offset)
            /\ pixels' = ReferenceAfterShift(pixels, offset)
            /\ QStart("img", ShiftedPixels(pixels, offset))
            /\ pc' = "q_run"
            /\ UNCHANGED fault
    /\ UNCHANGED <<debug, ieVars, guiVars, nbad, nruns, imexpr_a, soVars,
                   snrVars, offset, uncimg, rexc, ridx, insts, tmp, created,
                   calls>>

\* orig_img_path: the shifted image itself without uncimgk, else the path
\* its keyword holds
OrigImgPathOfKeyword(u) == "uncalibrated_image"

OrigImgPath(u) == IF u = "none" THEN "shifted_image" ELSE "uncalibrated_image"

\* the image on which saturation is looked for
RunUncimg ==
    /\ pc = "run_uncimg"
    /\ \E u \in {"none", "exists", "missing"} :
         /\ uncimg' = u
         /\ IF u = "missing"
            THEN pc' = "fault" /\ fault' = "IOError"
            ELSE pc' = "run_mask" /\ UNCHANGED fault
    /\ UNCHANGED <<debug, ieVars, guiVars, nbad, nruns, imexpr_a, soVars,
                   snrVars, pixels, offset, shifted, rexc, ridx, qVars>>

\* mkstemp, close and unlink of the mask, imexpr, and mask_qphot.run
RunMask ==
    /\ pc = "run_mask"
    /\ \/ \* mkstemp fails
          /\ rexc' = "OSError"
          /\ pc' = "run_finally"
          /\ UNCHANGED <<tmp, created, calls, imexpr_a, qinst, qarg, qpix,
                         text, qpc, qlines, qexc, qret>>
       \/ \* imexpr fails, with or without having written the mask
          /\ created' = created \cup {"mask"}
          /\ calls' = [calls EXCEPT !["imexpr"] = @ + 1]
          /\ imexpr_a' = OrigImgPath(uncimg)
          /\ \E left \in SUBSET {"mask"} : tmp' = tmp \cup left
          /\ rexc' = "IrafError"
          /\ pc' = "run_finally"
          /\ UNCHANGED <<qinst, qarg, qpix, text, qpc, qlines, qexc, qret>>
       \/ /\ created' = created \cup {"mask"}
          /\ calls' = [calls EXCEPT !["imexpr"] = @ + 1]
          /\ imexpr_a' = OrigImgPath(uncimg)
          /\ tmp' = tmp \cup {"mask"}
          /\ QStart("mask", shifted)
          /\ pc' = "q_run"
          /\ UNCHANGED rexc
    /\ UNCHANGED <<fault, debug, ieVars, guiVars, nbad, nruns, soVars,
                   snrVars, pixels, offset, uncimg, shifted, ridx, insts>>

\* assert len(img_qphot) == len(mask_qphot)
RunAssert ==
    /\ pc = "run_assert"
    /\ IF debug /\ Len(insts["img"]) # Len(insts["mask"])
       THEN /\ rexc' = "AssertionError"
            /\ pc' = "run_finally"
            /\ UNCHANGED ridx
       ELSE /\ ridx' = 1
            /\ pc' = "run_classify"
            /\ UNCHANGED rexc
    /\ UNCHANGED <<fault, debug, ieVars, guiVars, nbad, nruns, imexpr_a,
                   soVars, snrVars, pixels, offset, uncimg, shifted, qVars>>

\* one iteration of the loop over zip(img_qphot, mask_qphot)
RunClassify ==
    /\ pc = "run_classify"
    /\ ridx <= ZipLen(Len(insts["img"]), Len(insts["mask"]))
    /\ LET star_phot == insts["img"][ridx]
           star_mask == insts["mask"][ridx] IN
       IF debug /\ (star_phot.x # star_mask.x \/ star_phot.y # star_mask.y)
       THEN /\ rexc' = "AssertionError"
            /\ pc' = "run_finally"
            /\ UNCHANGED <<insts, ridx>>
       ELSE /\ insts' = [insts EXCEPT
                           !["img"] = Classify(@, insts["mask"], ridx)]
            /\ ridx' = ridx + 1
            /\ UNCHANGED <<pc, rexc>>
    /\ UNCHANGED <<fault, debug, ieVars, guiVars, nbad, nruns, imexpr_a,
                   soVars, snrVars, pixels, offset, uncimg, shifted, qinst,
                   qpc, qarg, qpix, text, qlines, qexc, qret, tmp, created,
                   calls>>

\* the loop is over
RunClassified ==
    /\ pc = "run_classify"
    /\ ridx > ZipLen(Len(insts["img"]), Len(insts["mask"]))
    /\ pc' = "run_finally"
    /\ UNCHANGED <<fault, debug, ieVars, guiVars, nbad, nruns, imexpr_a,
                   soVars, snrVars, runVars, qVars>>

\* the image of each QPhot instance of run: QPhot(shifted_image.path) and
\* QPhot(satur_mask_path)
QPhotPath(inst) == IF inst = "img" THEN "shifted_image" ELSE "satur_mask"

\* return img_qphot
RunReturns == "img"

\* the file the finally clause of run unlinks
RunUnlinkedNothing == {}

RunUnlinked == {"mask"}

\* the finally clause: os.unlink(satur_mask_path); then return img_qphot or
\* the pending exception
RunFinally ==
    /\ pc = "run_finally"
    /\ tmp' = tmp \ RunUnlinked
    /\ IF rexc = "none"
       THEN pc' = "run_returned" /\ UNCHANGED fault
       ELSE pc' = "fault" /\ fault' = rexc
    /\ UNCHANGED <<debug, ieVars, guiVars, nbad, nruns, imexpr_a, soVars,
                   snrVars, runVars, insts, qinst, qpc, qarg, qpix, text,
                   qlines, qexc, qret, created, calls>>

(***************************************************************************)
(* The saturation mask of run, followed for one pixel.  Values are counted *)
(* in halves of an ADU, so that a threshold may have a fractional part.    *)
(***************************************************************************)
\* the thresholds and the pixel values tried: 2, 2.5 and 3 ADU; 1.5 to 3.5
MaximumVals == {4, 5, 6}
PixelVals == 3..7

\* "%d" % maximum: the integer part of the number, in ADU
FormatD(v) == IF v >= 0 THEN v \div 2 ELSE -((-v) \div 2)

\* "a>%d ? 1 : 0", evaluated by imexpr on a pixel of value val
Imexpr(thr, val) == IF val > 2 * thr THEN 1 ELSE 0

\* expr = "a>%d ? 1 : 0" % maximum
MaskExpr ==
    /\ pc = "idle"
    /\ \E m \in MaximumVals, v \in PixelVals :
         /\ maximum' = m
         /\ a_pixel' = v
         /\ expr' = FormatD(m)
    /\ pc' = "mask_expr"
    /\ UNCHANGED <<fault, debug, nbad, nruns, imexpr_a, soVars, snrVars,
                   runVars, qVars, mask_value, guiVars>>

\* pyraf.iraf.images.imexpr(expr, a = orig_img_path, ...)
MaskImexpr ==
    /\ pc = "mask_expr"
    /\ mask_value' = Imexpr(expr, a_pixel)
    /\ pc' = "mask_done"
    /\ UNCHANGED <<fault, debug, nbad, nruns, imexpr_a, soVars, snrVars,
                   runVars, qVars, maximum, expr, a_pixel, guiVars>>

(***************************************************************************)
(* LEMONJuicerGUI.open_db: a database is loaded into the overview.  One    *)
(* call is followed at a time; a database is known by the number of the   *)
(* call that opened it.                                                    *)
(***************************************************************************)
\* self.view: the overview whose 'table-view' it is and the store set as
\* its model, 0 for none
View(of, model) == [of |-> of, model |-> model]

NoView == View(0, 0)

\* what the user has before him: the database, the pages and the view
Shown(d, pages, v) == [db |-> d, pages |-> pages, view |-> v]

\* the answers to the question of lines 147-154
Responses == {"RESPONSE_OK", "RESPONSE_CANCEL"}

\* if not self._aborted: self.db = db
DbAssignedAnyway(old, new, aborted) == new

DbAfterLoad(old, new, aborted) == IF aborted THEN old ELSE new

\* open_db is called; with a database open the user is asked first, and the
\* pages are removed if he agrees; then self.view, the loading dialog and
\* self._aborted = False
OpenDbCall ==
    /\ pc \in {"idle", "gui_returned"}
    /\ nopens < MaxOpens
    /\ nopens' = nopens + 1
    /\ at_call' = Shown(self_db, n_pages, self_view)
    /\ err' = "none"
    /\ db' = 0 /\ nstars' = 0 /\ star_index' = 0
    /\ \E response \in Responses :
         IF self_db # 0 /\ response # "RESPONSE_OK"
         THEN /\ pc' = "gui_returned"
              /\ UNCHANGED <<n_pages, self_view, self_aborted>>
         ELSE /\ n_pages' = IF self_db # 0 THEN 0 ELSE n_pages
              /\ self_view' = View(nopens + 1, 0)
              /\ self_aborted' = FALSE
              /\ pc' = "gui_open"
    /\ UNCHANGED <<fault, debug, nbad, nruns, imexpr_a, soVars, snrVars,
                   runVars, qVars, ieVars, self_db>>

\* db = database.LEMONdB(path), the store and the columns; nstars = len(db)
OpenDbOpen ==
    /\ pc = "gui_open"
    /\ \/ /\ db' = nopens
          /\ \E n \in 0..MaxDbStars : nstars' = n
          /\ pc' = "gui_load"
          /\ UNCHANGED err
       \/ \* the file cannot be loaded: except and finally
          /\ err' = "Exception"
          /\ pc' = "gui_returned"
          /\ UNCHANGED <<db, nstars>>
    /\ UNCHANGED <<fault, debug, nbad, nruns, imexpr_a, soVars, snrVars,
                   runVars, qVars, ieVars, self_db, n_pages, self_view,
                   self_aborted, star_index, at_call, nopens>>

\* one iteration of the loop over db.star_ids: the row of the star, and
\* the pending events, among which may be the response of the dialog
OpenDbStar ==
    /\ pc = "gui_load"
    /\ star_index < nstars
    /\ ~self_aborted
    /\ \/ /\ star_index' = star_index + 1
          /\ \E cancel \in BOOLEAN : self_aborted' = cancel
          /\ UNCHANGED <<pc, err>>
       \/ \* db.get_star or db.get_period raises: except and finally
          /\ err' = "Exception"
          /\ pc' = "gui_returned"
          /\ UNCHANGED <<star_index, self_aborted>>
    /\ UNCHANGED <<fault, debug, nbad, nruns, imexpr_a, soVars, snrVars,
                   runVars, qVars, ieVars, self_db, n_pages, self_view, db,
                   nstars, at_call, nopens>>

\* the loop is over or was left: if not self._aborted, self.db = db, the
\* page of the overview and the model of the view; then finally
OpenDbLoaded ==
    /\ pc = "gui_load"
    /\ star_index >= nstars \/ self_aborted
    /\ self_db' = DbAfterLoad(self_db, db, self_aborted)
    /\ \/ /\ n_pages' = IF self_aborted THEN n_pages ELSE n_pages + 1
          /\ self_view' = IF self_aborted THEN self_view
                          ELSE View(self_view.of, db)
          /\ UNCHANGED err
       \/ \* a call after the assignment raises: except and finally
          /\ ~self_aborted
          /\ err' = "Exception"
          /\ \E added \in BOOLEAN :
               n_pages' = IF added THEN n_pages + 1 ELSE n_pages
          /\ UNCHANGED self_view
    /\ pc' = "gui_returned"
    /\ UNCHANGED <<fault, debug, nbad, nruns, imexpr_a, soVars, snrVars,
                   runVars, qVars, ieVars, self_aborted, db, nstars,
                   star_index, at_call, nopens>>

(***************************************************************************)
(* The specification.                                                      *)
(***************************************************************************)
InitCommon ==
    /\ pc = "idle"
    /\ fault = "none"
    /\ so_orig = NoRect /\ so_init = NoRect /\ so_rect = NoRect
    /\ so_thr0 = 0 /\ so_thr = 0 /\ so_step = 0
    /\ so_stat = [mean |-> 0, stddev |-> 0]
    /\ so_depth = 0 /\ so_shrinks = 0
    /\ so_ret = NoRect
    /\ so_new = [mean |-> 0, stddev |-> 0]
    /\ snr_self = QPhotResult(0, 0, None, 0, 0, None)
    /\ snr_gain = 0
    /\ snr_ret = SnrNotCalled
    /\ pixels = <<>>
    /\ offset = Pixel(0, 0)
    /\ uncimg = "unread"
    /\ shifted = <<>>
    /\ rexc = "none"
    /\ ridx = 0
    /\ insts = [i \in {"img", "mask", "solo"} |-> <<>>]
    /\ qinst = "solo"
    /\ qpc = "done"
    /\ qarg = <<>>
    /\ qpix = <<>>
    /\ text = [i \in {"img", "mask", "solo"} |-> <<>>]
    /\ qlines = -1
    /\ qexc = "none"
    /\ qret = -1
    /\ tmp = {}
    /\ created = {}
    /\ calls = [t \in Tasks |-> 0]
    /\ nbad = 0
    /\ nruns = 0
    /\ imexpr_a = ""
    /\ maximum = 0 /\ expr = 0 /\ a_pixel = 0 /\ mask_value = -1
    /\ self_db = 0
    /\ n_pages = 0
    /\ self_view = NoView
    /\ self_aborted = FALSE
    /\ db = 0 /\ nstars = 0 /\ star_index = 0
    /\ err = "none"
    /\ at_call = Shown(0, 0, NoView)
    /\ nopens = 0

\* the interpreter runs with assertions, or was started with -O
Init == InitCommon /\ debug \in BOOLEAN

Next ==
    \/ SO_Call \/ SO_Shrink \/ SO_Relax \/ SO_Test
    \/ SnrNew \/ SnrCall
    \/ QCall \/ QRerun \/ QClear \/ QDetect \/ QCoords \/ QQphot \/ QTxdump \/ QRead
    \/ QParse \/ QParsed \/ QFinally
    \/ RunCall \/ RunShift \/ RunUncimg \/ RunMask \/ RunAssert
    \/ RunClassify \/ RunClassified \/ RunFinally
    \/ MaskExpr \/ MaskImexpr
    \/ OpenDbCall \/ OpenDbOpen \/ OpenDbStar \/ OpenDbLoaded

Spec == Init /\ [][Next]_vars

\* the interpreter started as the first line of the module asks: assertions
\* are on
InitDebug == InitCommon /\ debug = TRUE

SpecDebug == InitDebug /\ [][Next]_vars

(***************************************************************************)
(* Properties.                                                             *)
(***************************************************************************)
RECURSIVE Pow2(_)
Pow2(k) == IF k <= 0 THEN 1 ELSE 2 * Pow2(k - 1)

\* the three positions inside stable_overscan
SoPcs == {"so_shrink", "so_test", "so_returned"}

\* a rectangle whose low bound exceeds its high bound in some axis
Inverted(r) == r.x1 > r.x2 \/ r.y1 > r.y2

\* what a field of txdump stands for: the number, or None for INDEF
FieldValue(tok) == IF tok.word = "" THEN Float(tok.val) ELSE None

\* QPhot.run has returned to its caller
QReturned == qpc = "done" /\ qexc = "none" /\ qret >= 0

\* C1: after run returns, every star whose photometry on the saturation mask
\* has a flux above zero has a magnitude of positive infinity.
C1_SaturatedIsInfinity ==
    pc = "run_returned" =>
        \A i \in 1..Len(insts["img"]) :
            (i <= Len(insts["mask"]) /\ insts["mask"][i].flux > 0)
                => insts["img"][i].magnitude = Infinity

\* C2: after run returns, every star whose mask photometry has a flux of
\* zero has the magnitude QPhot.run parsed for it on the shifted image, None
\* included, and has not been marked as saturated.
C2_UnsaturatedKeepsMagnitude ==
    pc = "run_returned" =>
        /\ Len(insts["img"]) = Len(text["img"])
        /\ \A i \in 1..Len(insts["img"]) :
              (i <= Len(insts["mask"]) /\ insts["mask"][i].flux = 0) =>
                  /\ insts["img"][i].magnitude = FieldValue(text["img"][i][3])
                  /\ insts["img"][i].mag = Absent

C2_Witness ==
    /\ pc = "run_returned"
    /\ Len(insts["img"]) = 2
    /\ Len(insts["mask"]) = 2
    /\ insts["mask"][1].flux = 0
    /\ insts["img"][1].magnitude = None
    /\ text["img"][1][3] = Word("INDEF")
    /\ insts["mask"][2].flux > 0

\* C3: whenever the area is exhausted, the search restarts with the
\* rectangle the caller supplied and twice the threshold.
C3_RestartsFromOriginal ==
    so_depth > 0 =>
        /\ so_init = so_orig
        /\ so_thr = so_thr0 * Pow2(so_depth)

\* C4: stable_overscan returns for every rectangle that is not inverted and
\* every step of one or more: exhaustion is never surfaced to the caller as
\* a failure of the recursion (the interpreter's refusal of one more call,
\* or imstat on a section that has left the image).  Stated for the
\* rectangles that are not exhausted by their first shrink, the ones a
\* relaxed threshold has a test to stop at.
C4_NeverSurfaced ==
    ~(/\ pc = "fault"
      /\ fault \in {"RuntimeError", "IrafError"}
      /\ so_step >= 1
      /\ ~Inverted(so_orig)
      /\ so_orig.x1 + so_step <= so_orig.x2 - so_step
      /\ so_orig.y1 + so_step <= so_orig.y2 - so_step)

\* C5: stable_overscan shrinks before it tests convergence: a returned
\* rectangle was shrunk at least once, and a return at the first test gives
\* the initial rectangle shrunk by one step on each side.
C5_ShrinksBeforeTesting ==
    /\ (pc = "so_test" => so_shrinks >= 1)
    /\ (pc = "so_returned" =>
           /\ so_shrinks >= 1
           /\ so_ret = so_rect
           /\ so_ret # so_init)
    /\ (pc = "so_returned" /\ so_shrinks = 1 =>
           so_ret = Rect(so_init.x1 + so_step, so_init.x2 - so_step,
                         so_init.y1 + so_step, so_init.y2 - so_step))

C5_Witness ==
    /\ pc = "so_returned"
    /\ so_shrinks = 1
    /\ so_orig = Rect(1, 5, 1, 5)
    /\ so_ret = Rect(2, 4, 2, 4)

\* C6: in every invocation the threshold in force is the caller's threshold
\* times two to the number of exhaustions so far.
C6_ThresholdPowerOfTwo == so_thr = so_thr0 * Pow2(so_depth)

C6_Witness ==
    /\ pc = "so_shrink"
    /\ so_depth = 2
    /\ so_thr0 = 1
    /\ so_thr = 4

\* C7 as claimed: called with an inverted rectangle, stable_overscan relaxes
\* the threshold before it shrinks that rectangle at all.
C7_RelaxesBeforeShrinking ==
    (Inverted(so_orig) /\ so_depth = 0) => so_shrinks = 0

\* C7 as amended: an invocation on an inverted rectangle shrinks it once and
\* then finds it exhausted: it makes no second shrink, computes no
\* statistics of a shrunk rectangle and returns nothing.
C7_ShrinksOnceThenRelaxes ==
    (pc \in SoPcs /\ Inverted(so_init)) =>
        /\ so_shrinks <= 1
        /\ pc # "so_returned"
        /\ (pc = "so_test" => so_shrinks = 1 /\ Inverted(so_rect))
        /\ (pc = "so_shrink" => so_shrinks = 0)

C7_Witness ==
    /\ pc = "so_test"
    /\ so_depth = 0
    /\ Inverted(so_orig)
    /\ so_shrinks = 1
    /\ so_thr = so_thr0

\* C8 as claimed: for a gain above zero snr returns 0.0 when sum is zero and
\* a value below zero whenever sum is below zero, whatever the flux.
C8_NegativeWheneverSumNegative ==
    (pc = "snr_returned" /\ snr_gain > 0) =>
        /\ (snr_self.sum = 0 => snr_ret = SnrValue(0, 1))
        /\ (snr_self.sum < 0 => snr_ret.num < 0)

\* C8 as amended: for a gain above zero snr returns; it returns 0.0 when sum
\* is zero; when sum is below zero it returns a value below zero if the flux
\* is not zero and zero if the flux is zero; sum = -100, flux = -50 and
\* gain = 1 give -5.0.
C8_NegativeUnlessFluxZero ==
    /\ (snr_ret.exc # "not called" /\ snr_gain > 0) => pc = "snr_returned"
    /\ (pc = "snr_returned" /\ snr_gain > 0) =>
        /\ (snr_self.sum = 0 => snr_ret = SnrValue(0, 1))
        /\ (snr_self.sum < 0 /\ snr_self.flux # 0 => snr_ret.num < 0)
        /\ (snr_self.sum < 0 /\ snr_self.flux = 0 => snr_ret.num = 0)
        /\ (snr_self.sum = -100 /\ snr_self.flux = -50 /\ snr_gain = 1 =>
               /\ snr_ret.num < 0
               /\ snr_ret.num * snr_ret.num = 5 * 5 * snr_ret.rad)

C8_Witness ==
    /\ pc = "snr_returned"
    /\ snr_self.sum = -100
    /\ snr_self.flux = -50
    /\ snr_gain = 1
    /\ snr_ret = SnrValue(-50, 100)

\* C9: for every gain of zero or less snr raises ValueError, whatever sum
\* and flux, and the call leaves the fields of the result as they were.
C9_InvalidGain ==
    [][pc = "snr_ready" =>
          /\ snr_self' = snr_self
          /\ (snr_gain' <= 0 =>
                 /\ pc' = "fault"
                 /\ fault' = "ValueError"
                 /\ snr_ret'.exc = "ValueError")]_vars

C9_Witness ==
    /\ pc = "fault"
    /\ fault = "ValueError"
    /\ snr_gain = 0
    /\ snr_self.sum = 0

\* C10: a QPhot.run that was given n > 0 coordinates and returns leaves n
\* entries and returns n; entry i holds the fields of line i of the output
\* and lies within epsilon of coordinate i.
C10_OrderAndCardinality ==
    (QReturned /\ qarg # <<>>) =>
        /\ qret = Len(qarg)
        /\ Len(insts[qinst]) = Len(qarg)
        /\ Len(text[qinst]) = Len(qarg)
        /\ \A i \in 1..Len(qarg) :
              LET star == insts[qinst][i]
                  line == text[qinst][i] IN
              /\ Float(star.x) = FieldValue(line[1])
              /\ Float(star.y) = FieldValue(line[2])
              /\ star.magnitude = FieldValue(line[3])
              /\ Float(star.sum) = FieldValue(line[4])
              /\ Float(star.flux) = FieldValue(line[5])
              /\ star.stdev = FieldValue(line[6])
              /\ Abs(star.x - qarg[i].x) < Epsilon
              /\ Abs(star.y - qarg[i].y) < Epsilon

\* the instances of QPhot
Instances == {"img", "mask", "solo"}

\* line i the loop of QPhot.run took lies within epsilon of pixel i
EchoesPixel(line, pixel) ==
    /\ Len(line) >= 2
    /\ Abs(line[1].val - pixel.x) < Epsilon
    /\ Abs(line[2].val - pixel.y) < Epsilon

\* C11: a consistency fault always aborts the batch: when QPhot.run returns,
\* the output had as many lines as there were coordinates, and the center
\* of every record lies within 0.001 pixel of its coordinate, with
\* assertions enabled or not.
C11_ConsistencyFaultAborts ==
    QReturned =>
        /\ qlines = Len(qpix)
        /\ \A i \in 1..Len(text[qinst]) :
              i <= Len(qpix) /\ EchoesPixel(text[qinst][i], qpix[i])

RecordOf(line) ==
    QPhotResult(line[1].val, line[2].val, FieldValue(line[3]), line[4].val,
                line[5].val, FieldValue(line[6]))

\* the instance "solo" holds the records of the lines its latest run took,
\* and nothing else
HoldsLatestRunOnly ==
    /\ Len(insts["solo"]) = Len(text["solo"])
    /\ \A i \in 1..Len(insts["solo"]) :
          insts["solo"][i] = RecordOf(text["solo"][i])

\* C13: after a second or later run on the same instance has returned, the
\* instance holds the results of that run only, and as many of them as the
\* run had coordinates.
C13_OnlyMostRecentRun ==
    (QReturned /\ qinst = "solo" /\ nruns >= 2) =>
        /\ HoldsLatestRunOnly
        /\ Len(insts["solo"]) = Len(qpix)

\* what holds in both interpreter modes: nothing of an earlier run is
\* retained
NothingRetained ==
    (QReturned /\ qinst = "solo" /\ nruns >= 2) => HoldsLatestRunOnly

\* C14: whenever QPhot.run has exited, by a return or by an exception of
\* any of its steps, none of the file of coordinates, the output of qphot
\* and the output of txdump exists.
C14_NoTemporaryFileLeft ==
    qpc = "done" => tmp \cap {"coords", "output", "txdump"} = {}

C14_Witness ==
    /\ qpc = "done"
    /\ qexc \in {"IrafError", "AssertionError", "ValueError", "IndexError"}
    /\ {"coords", "output", "txdump"} \subseteq created
    /\ tmp \cap {"coords", "output", "txdump"} = {}

\* C15: when run has exited, by a return or by an exception, the saturation
\* mask does not exist; what run returns is the photometry of the shifted
\* image, whose path is not that of the mask.
C15_MaskDiscarded ==
    /\ pc \in {"run_returned", "fault"} => "mask" \notin tmp
    /\ pc = "run_returned" => QPhotPath(RunReturns) # QPhotPath("mask")

C15_Witness ==
    /\ pc = "fault"
    /\ fault = "AssertionError"
    /\ qinst = "mask"
    /\ qexc = "none"
    /\ "mask" \in created
    /\ "mask" \notin tmp

RunHasShifted ==
    /\ qinst \in {"img", "mask"}
    /\ pc \in {"q_run", "run_uncimg", "run_mask", "run_assert",
               "run_classify", "run_finally", "run_returned"}

\* the shifted list has the length and the order of the reference list,
\* each Pixel moved by the offset
ShiftedAsClaimed ==
    /\ Len(shifted) = Len(pixels)
    /\ \A i \in 1..Len(pixels) :
          /\ shifted[i].x = pixels[i].x + offset.x
          /\ shifted[i].y = pixels[i].y + offset.y

\* C17: the shifted list is the reference list moved by (dx, dy), in the
\* same order, and the batch run returns has one result per shifted
\* coordinate, the i-th result being that of the i-th coordinate.
C17_ShiftedAndAligned ==
    /\ RunHasShifted => ShiftedAsClaimed
    /\ pc = "run_returned" =>
          /\ Len(insts["img"]) = Len(shifted)
          /\ \A i \in 1..Len(insts["img"]) :
                /\ i <= Len(shifted)
                /\ Abs(insts["img"][i].x - shifted[i].x) < Epsilon
                /\ Abs(insts["img"][i].y - shifted[i].y) < Epsilon

\* what holds in both interpreter modes: the shift itself
ShiftedCorrectly == RunHasShifted => ShiftedAsClaimed

\* both passes of run are given and measure list_of_shifted_pixels, and no
\* source detection takes place
SamePixelsBothPasses ==
    qinst \in {"img", "mask"} =>
        /\ qarg = shifted
        /\ qpix = shifted
        /\ calls["sextractor"] = 0

\* C18: for every reference list, an empty one included, run gets to its
\* two passes, and the pass on the mask measures the list the pass on the
\* shifted image measured: the shifted coordinates, and neither detected
\* sources nor the reference coordinates.
C18_SameCoordinatesBothPasses ==
    /\ SamePixelsBothPasses
    /\ ~(pc = "fault" /\ fault = "TypeError" /\ pixels = <<>>)

\* C19: when the path under the keyword uncimgk does not exist, run raises
\* IOError, returns nothing and builds no mask; without uncimgk no IOError
\* is raised and imexpr is run on the shifted image itself.
C19_MissingUncalibratedImage ==
    /\ uncimg = "missing" =>
          /\ pc = "fault"
          /\ fault = "IOError"
          /\ calls["imexpr"] = 0
          /\ "mask" \notin created
    /\ uncimg = "none" =>
          /\ fault # "IOError"
          /\ calls["imexpr"] > 0 => imexpr_a = "shifted_image"

C19_Witness ==
    /\ uncimg = "missing"
    /\ pc = "fault"
    /\ fault = "IOError"
    /\ Len(insts["img"]) = 2

C19_WitnessNoKeyword ==
    /\ uncimg = "none"
    /\ pc = "run_returned"
    /\ imexpr_a = "shifted_image"

\* C20: run returns a batch only when no step raised, an exception of a
\* step of run is the one that reaches the caller, and within one call
\* qphot runs at most once on the shifted image and once on the mask, and
\* imexpr at most once.
C20_AllOrNothing ==
    /\ pc = "run_returned" =>
          /\ fault = "none" /\ rexc = "none" /\ qexc = "none"
          /\ calls["qphot"] = 2 /\ calls["imexpr"] = 1
    /\ (pc = "fault" /\ rexc # "none") => fault = rexc
    /\ (pc = "fault" /\ qinst = "img" /\ qexc # "none") => fault = qexc
    /\ qinst = "img" => calls["qphot"] <= 1
    /\ qinst = "mask" => calls["qphot"] <= 2 /\ calls["imexpr"] = 1
    /\ nruns = 0 => calls["imexpr"] <= 1

C20_Witness ==
    /\ pc = "fault"
    /\ fault = "IrafError"
    /\ qinst = "mask"
    /\ qexc = "IrafError"
    /\ calls["qphot"] = 2
    /\ calls["imexpr"] = 1
    /\ Len(insts["img"]) = 2

\* the i-th entries of the two batches of run are of the same star
SameStar(i) ==
    /\ i <= Len(insts["img"]) /\ i <= Len(insts["mask"])
    /\ insts["img"][i].x = insts["mask"][i].x
    /\ insts["img"][i].y = insts["mask"][i].y

\* the i-th star of the batch of the shifted image was marked saturated,
\* in the attribute the code writes or in the one the claims speak of
Marked(i) ==
    \/ insts["img"][i].mag = Infinity
    \/ insts["img"][i].magnitude = Infinity

\* C21: run returns only when the two batches have the same length and the
\* same x and y at every index, and no star is ever marked on the flux of
\* an entry of another star.
C21_MismatchFaults ==
    /\ pc = "run_returned" =>
          /\ Len(insts["img"]) = Len(insts["mask"])
          /\ \A i \in 1..Len(insts["img"]) : SameStar(i)
    /\ \A i \in 1..Len(insts["img"]) : Marked(i) => SameStar(i)

\* C22: no star of a batch returned by run is both undefined (magnitude
\* None) and saturated (+infinity), a star reported as INDEF whose mask flux
\* is positive included.
C22_AtMostOneSentinel ==
    pc = "run_returned" =>
        \A i \in 1..Len(insts["img"]) :
            ~(insts["img"][i].magnitude = None /\ Marked(i))

\* C23: a step of the classification of run leaves the number and the order
\* of the entries as they are and changes nothing of an entry except its
\* magnitude: x, y, sum, flux and stdev stay as parsed and no attribute is
\* added.
C23_OnlyMagnitudeChanges ==
    [][pc = "run_classify" =>
          /\ Len(insts'["img"]) = Len(insts["img"])
          /\ \A i \in 1..Len(insts["img"]) :
                insts'["img"][i] =
                    [insts["img"][i] EXCEPT
                        !.magnitude = insts'["img"][i].magnitude]]_vars

\* C26: in the batch run returns, every star whose flux on the saturation
\* mask is not zero is marked saturated, a negative flux included.
C26_NonZeroFluxMarked ==
    pc = "run_returned" =>
        \A i \in 1..Len(insts["img"]) :
            (SameStar(i) /\ insts["mask"][i].flux # 0) => Marked(i)

\* QPhot.run on instance inst is past self.clear(), its first statement
PastClear(inst) == ~(pc = "q_run" /\ qinst = inst /\ qpc = "clear")

\* entry j of instance inst is the record of line j of the output, whether
\* or not run has marked it since
FromLine(inst, j) ==
    /\ j <= Len(text[inst])
    /\ LET line == text[inst][j]
           star == insts[inst][j] IN
       /\ Len(line) = 6
       /\ star.x = line[1].val
       /\ star.y = line[2].val
       /\ star.magnitude = FieldValue(line[3])
       /\ star.sum = line[4].val
       /\ star.flux = line[5].val
       /\ star.stdev = FieldValue(line[6])

\* C29: from self.clear() on, during and after QPhot.run on an instance,
\* entry j of the instance is the record of output line j and there are no
\* more entries than coordinates; a run that faults on a line leaves the
\* records of the lines before it, in their order, and nothing else.
C29_AlignedPrefix ==
    PastClear(qinst) =>
        /\ \A j \in 1..Len(insts[qinst]) : FromLine(qinst, j)
        /\ Len(insts[qinst]) <= Len(qpix)
        /\ Len(text[qinst]) <= Len(insts[qinst]) + 1
        /\ Len(text[qinst]) > Len(insts[qinst]) => qexc # "none"

\* the second run on an instance faults on its second line, and the
\* instance holds the record of the first
C29_Witness ==
    /\ pc = "fault"
    /\ qinst = "solo"
    /\ nruns = 2
    /\ qexc = "ValueError"
    /\ Len(qpix) = 2
    /\ Len(text["solo"]) = 2
    /\ Len(insts["solo"]) = 1
    /\ insts["solo"][1] = RecordOf(text["solo"][1])

\* no work on the saturation mask has been done: no temporary file for it,
\* no call of imexpr, no photometry on it
NoMaskWork ==
    /\ "mask" \notin created
    /\ calls["imexpr"] = 0
    /\ qinst # "mask"
    /\ insts["mask"] = <<>>
    /\ text["mask"] = <<>>

\* C30: run looks for the uncalibrated image when the photometry on the
\* shifted image has returned, and until it has looked nothing is done for
\* the saturation mask; when the look-up fails with IOError there is no
\* temporary file of a mask, imexpr was not invoked and no photometry was
\* run on a mask.
C30_CheckBeforeMaskWork ==
    /\ pc = "run_uncimg" =>
          /\ qinst = "img" /\ qpc = "done" /\ qexc = "none"
          /\ qret = Len(insts["img"])
          /\ calls["qphot"] = 1
          /\ uncimg = "unread"
    /\ uncimg = "unread" => NoMaskWork
    /\ uncimg = "missing" =>
          /\ fault = "IOError"
          /\ qinst = "img" /\ qpc = "done" /\ calls["qphot"] = 1
          /\ NoMaskWork

C30_Witness ==
    /\ uncimg = "missing"
    /\ pc = "fault"
    /\ qret = 2
    /\ calls["qphot"] = 1
    /\ calls["txdump"] = 1
    /\ NoMaskWork

\* rectangle r lies inside rectangle o
Inside(r, o) ==
    /\ o.x1 <= r.x1 /\ r.x2 <= o.x2
    /\ o.y1 <= r.y1 /\ r.y2 <= o.y2

\* rectangle r is rectangle o with d pixels taken from each of its sides
ShrunkBy(r, o, d) ==
    r = Rect(o.x1 + d, o.x2 - d, o.y1 + d, o.y2 - d)

\* C28: a rectangle stable_overscan returns is not inverted, lies inside
\* the rectangle the caller gave, and is the rectangle the returning
\* invocation started from with k * step pixels taken from each of its four
\* sides, for some k >= 1.
C28_ReturnedRectangle ==
    pc = "so_returned" =>
        /\ so_ret.x1 <= so_ret.x2 /\ so_ret.y1 <= so_ret.y2
        /\ Inside(so_ret, so_orig)
        /\ \E k \in 1..(ImgW + ImgH) : ShrunkBy(so_ret, so_init, k * so_step)

\* returned after two shrinkings by one pixel
C28_Witness ==
    /\ pc = "so_returned"
    /\ so_step = 1
    /\ ShrunkBy(so_ret, so_init, 2)
    /\ so_ret.x1 <= so_ret.x2
    /\ so_init = so_orig

\* |new - old| / |old| <= thr / ThrDen, the threshold counted in quarters
ChangeWithin(old, new, thr) == Abs(new - old) * ThrDen <= thr * Abs(old)

\* both the mean and the standard deviation changed by no more than the
\* threshold
BothWithin(old, new, thr) ==
    /\ ChangeWithin(old.mean, new.mean, thr)
    /\ ChangeWithin(old.stddev, new.stddev, thr)

\* C24: stable_overscan returns the current rectangle only if the change of
\* the mean and that of the standard deviation, each against the statistics
\* of the rectangle before it, are both within the threshold in force; if
\* either is not, the new statistics take the place of the previous ones
\* and the area is shrunk again.
C24_ConvergenceTest ==
    /\ [](pc = "so_returned" =>
             /\ BothWithin(so_stat, so_new, so_thr)
             /\ so_ret = so_rect)
    /\ [][pc = "so_test" /\ ~Exhausted(so_rect) =>
             IF BothWithin(so_stat, so_new', so_thr)
             THEN pc' = "so_returned" /\ so_stat' = so_stat
             ELSE pc' = "so_shrink" /\ so_stat' = so_new']_vars

\* returned at the second test of an invocation, whose previous statistics
\* are those of the first shrunk rectangle
C24_Witness ==
    /\ pc = "so_returned"
    /\ so_shrinks = 2
    /\ so_new # so_stat
    /\ BothWithin(so_stat, so_new, so_thr)

\* C25: the pixel of the mask is 1 exactly when the pixel of the image is
\* greater than maximum, and 0 otherwise, whether maximum is an integer or
\* not.
C25_MaskAboveMaximum ==
    pc = "mask_done" => (mask_value = 1 <=> a_pixel > maximum)

C27_WitnessDeclined ==
    /\ pc = "gui_returned"
    /\ nopens = 2
    /\ db = 0 /\ err = "none"
    /\ self_db = 1 /\ n_pages = 1 /\ self_view = View(1, 1)

====
